---- MODULE Spec2Model ----
(***************************************************************************)
(* CeloShip load tester: the fleet orchestration of src/App.tsx (first     *)
(* App component, lines 1-678) over the chain client of the current        *)
(* celoService (src/unnamed/part_001).                                     *)
(*                                                                         *)
(* React state (useState) is the state of the model.  A handler runs to    *)
(* its first await in one step; every later step is the resolution of the  *)
(* promise the handler (or one wallet task) is suspended on, followed by   *)
(* the code up to the next await.  Form fields are read by a handler from  *)
(* the render closure at the moment it is invoked, so they are the inputs  *)
(* of the handler's action.  WalletAccount objects are shared by reference *)
(* between the arrays that hold them, so the fleet is an array of object   *)
(* ids into a heap.  Indices are 1-based here (wIndex + 1 of the source).  *)
(***************************************************************************)
EXTENDS Integers, Sequences, FiniteSets, TLC

\* ---- bounds of the model ----
MaxHeap == 3        \* WalletAccount objects ever created
MaxWallets == 1     \* largest wallet count / number of import lines entered
MaxK == 1           \* largest "Tx / Wallet" entered
MaxFunds == 2       \* Fund Fleet commands that pass the busy check
MaxSwarms == 1      \* Start Swarm commands that pass the busy check
MaxResets == 1      \* Reset Fleet commands that take effect
MaxManual == 1      \* Refresh commands that take effect
MaxNonce == 1       \* largest start nonce the chain reports
MaxRefreshers == 1  \* SpecSwarm: refresh passes still running when a swarm starts
SwarmWallets == 2   \* SpecSwarm: wallets of the fleet
SwarmK == 2         \* SpecSwarm: largest "Tx / Wallet" entered
SwarmRuns == 2      \* SpecSwarm: Start Swarm commands
MaxTx == 3          \* "Tx / Wallet" of all swarm runs together
FundWallets == 3    \* SpecFund: largest wallet count / number of import lines
E2EWallets == 2     \* SpecE2E: wallets generated
E2EK == 3           \* SpecE2E: "Tx / Wallet"
MaxGens == 2        \* SpecAi: payload generations requested
TxWallets == 1      \* SpecTx: wallets generated
TxK == 2            \* SpecTx: largest "Tx / Wallet" entered
MaxLogs == 4        \* SpecLog: entries of the log
RaceWallets == 2    \* SpecRace: largest wallet count entered
RaceManual == 2     \* SpecRace: Refresh commands that take effect

Ids == 1..MaxHeap

\* ---- inputs (form fields as the operator can have left them) ----
Targets == {"", "0xABC"}
FunderKeys == {"", "funder"}
FundingAmounts == {"0.01", "abc"}
WalletModes == {"generate", "import"}
Intensities == 0..MaxK
\* What getBalance resolves to (formatEther of the chain's answer, or '0' when
\* the query failed): no code branches on it, so one value stands for all.
Balances == {"fetched"}
\* one line of the import text: 0 blank, -1 not a key, n > 0 the n-th valid key
ImportLines == {-1, 0, 1}
ImportTexts(max) == UNION {[1..n -> ImportLines] : n \in 0..max}

\* ---- types.ts ----
LogType == {"INFO", "SUCCESS", "ERROR", "WARNING"}
WalletStatus == {"idle", "funding", "sending", "done", "error"}

VARIABLES isFunding, isSwarming, logs, wallets, stats,
          heap,        \* the WalletAccount objects, by id
          nextId,      \* next unused object id
          fund,        \* the handleFundFleet invocation in flight
          swarm,       \* the handleStartSwarm invocation in flight (or the last one)
          refreshers,  \* updateFleetBalances passes nobody awaits
          gen,         \* the AI panel: payload, flag, generations in flight
          logIds,      \* ids of the entries addLog appended, where they are drawn
          ops,         \* operator commands so far, per kind
          lastOp       \* the step taken last

vars == <<isFunding, isSwarming, logs, wallets, stats, heap, nextId, fund,
          swarm, refreshers, gen, logIds, ops, lastOp>>

isBusy == isFunding \/ isSwarming

\* ---- helpers ----
ZeroStats == [totalTx |-> 0, successfulTx |-> 0, failedTx |-> 0]

NewWallet(addr) ==
    [address |-> addr, balance |-> "0", txCount |-> 0, status |-> "idle"]

LogEntry(message, type, w, hasTx) ==
    [message |-> message, type |-> type, w |-> w, txHash |-> hasTx]

addLog(l, message, type) == Append(l, LogEntry(message, type, 0, FALSE))

addLogW(l, message, type, w, hasTx) == Append(l, LogEntry(message, type, w, hasTx))

isValidPrivateKey(key) == key = "funder"

parseEtherOk(amount) == amount = "0.01"

\* setWallets(prev => { updated = [...prev]; if (updated[i]) updated[i].status = st })
SetStatus(h, ws, idx, st) ==
    IF idx <= Len(ws) THEN [h EXCEPT ![ws[idx]].status = st] ELSE h

\* setWallets(prev => { ...; if (updated[i]) updated[i].txCount += 1 })
IncTxCountFirst(h, ws, idx) ==
    IF Len(ws) > 0 THEN [h EXCEPT ![ws[1]].txCount = @ + 1] ELSE h

IncTxCount(h, ws, idx) ==
    IF idx <= Len(ws) THEN [h EXCEPT ![ws[idx]].txCount = @ + 1] ELSE h

IdleFund == [pc |-> "idle", targets |-> <<>>, i |-> 0, j |-> 0,
             submitted |-> <<>>, inflight |-> {}]

\* customData, isGeneratingAi, aiStrategy, and the handleAiGeneration
\* invocations in flight with the call each one awaits.
IdleGen == [customData |-> "", isGeneratingAi |-> FALSE, aiStrategy |-> "",
            result |-> [threw |-> FALSE, hexData |-> "", reasoning |-> ""],
            runs |-> <<>>]

\* useState(300000)
gasLimit == 300000

IdleSwarm == [pc |-> "idle", ws |-> <<>>, k |-> 0, target |-> "", payload |-> "",
              gasLimit |-> gasLimit, tasks |-> <<>>]

Init ==
    /\ isFunding = FALSE
    /\ isSwarming = FALSE
    /\ logs = addLog(<<>>, "SystemReady", "INFO")
    /\ wallets = <<>>
    /\ stats = ZeroStats
    /\ heap = [id \in Ids |-> NewWallet(id)]
    /\ nextId = 1
    /\ fund = IdleFund
    /\ swarm = IdleSwarm
    /\ refreshers = <<>>
    /\ gen = IdleGen
    /\ logIds = <<>>
    /\ ops = [fund |-> 0, swarm |-> 0, reset |-> 0, refresh |-> 0, tx |-> 0, ai |-> 0]
    /\ lastOp = "init"

\* ---- celoService: wallet creation ----

\* createWallets(count): count fresh random accounts; the object id stands for
\* the random address.
createWalletsSameAccount(first, count) == [n \in 1..count |-> first]

createWallets(first, count) == [n \in 1..count |-> first + n - 1]

\* createWalletsFromKeys(keys): blank lines are skipped, lines that are no key
\* are skipped with a console.warn, every other line yields one wallet.
ValidKeyLines(keys) == SelectSeq(keys, LAMBDA line : line > 0)

createWalletsFromKeys(first, keys) ==
    [n \in 1..Len(ValidKeyLines(keys)) |-> first + n - 1]

ImportAddress(key) == 100 + key

\* prepareFleet(): the new fleet, and the log, heap and fleet state it leaves.
prepareFleet(l, h, first, cur, walletMode, walletCount, importText) ==
    IF walletMode = "generate"
    THEN LET newWallets == createWallets(first, walletCount)
         IN [newWallets |-> newWallets,
             logs |-> addLog(addLog(l, "Generating", "INFO"), "Generated", "SUCCESS"),
             heap |-> [id \in Ids |->
                          IF id >= first /\ id < first + walletCount
                          THEN NewWallet(id) ELSE h[id]],
             wallets |-> newWallets]
    ELSE LET keys == ValidKeyLines(importText)
             newWallets == createWalletsFromKeys(first, importText)
             l1 == addLog(l, "Parsing", "INFO")
         IN IF Len(newWallets) = 0
            THEN [newWallets |-> <<>>,
                  logs |-> addLog(l1, "NoValidKeys", "ERROR"),
                  heap |-> h,
                  wallets |-> cur]
            ELSE [newWallets |-> newWallets,
                  logs |-> addLog(l1, "Imported", "SUCCESS"),
                  heap |-> [id \in Ids |->
                               IF id >= first /\ id < first + Len(keys)
                               THEN NewWallet(ImportAddress(keys[id - first + 1]))
                               ELSE h[id]],
                  wallets |-> newWallets]

\* Objects prepareFleet would allocate (the heap of the model is finite).
FleetSize(walletMode, walletCount, importText) ==
    IF walletMode = "generate" THEN walletCount ELSE Len(ValidKeyLines(importText))

\* ---- handleFundFleet ----

\* fundWallets, loop head: the transfer to targets[i] is handed to the chain
\* client (funder.sendTransaction) and awaited.
SubmitTransfer(f, i) ==
    [f EXCEPT !.pc = "submit", !.i = i,
              !.submitted = Append(@, i), !.inflight = @ \cup {i}]

\* if (isFunding || isSwarming) return;
FundEntryBusy == isFunding \/ isSwarming

handleFundFleet(funderKey, fundingAmount, walletMode, walletCount, importText) ==
    IF FundEntryBusy
    THEN /\ lastOp' = "fund:busy"
         /\ UNCHANGED <<gen, logIds, isFunding, isSwarming, logs, wallets, stats, heap,
                        nextId, fund, swarm, refreshers, ops>>
    ELSE
    /\ ops' = [ops EXCEPT !.fund = @ + 1]
    /\ UNCHANGED <<gen, logIds, isSwarming, stats, swarm, refreshers>>
    /\ IF ~isValidPrivateKey(funderKey)
       THEN /\ logs' = addLog(logs, "InvalidFunderKey", "ERROR")
            /\ lastOp' = "fund:invalidKey"
            /\ UNCHANGED <<isFunding, wallets, heap, nextId, fund>>
       ELSE
       LET need == Len(wallets) = 0
           size == FleetSize(walletMode, walletCount, importText)
           p == IF need
                THEN prepareFleet(logs, heap, nextId, wallets, walletMode,
                                  walletCount, importText)
                ELSE [newWallets |-> wallets, logs |-> logs, heap |-> heap,
                      wallets |-> wallets]
           currentWallets == p.newWallets
       IN /\ need => nextId + size - 1 <= MaxHeap
          /\ nextId' = IF need THEN nextId + size ELSE nextId
          /\ heap' = p.heap
          /\ wallets' = p.wallets
          /\ IF Len(currentWallets) = 0
             THEN \* throw new Error("Failed to initialize fleet.")
                  /\ logs' = addLog(p.logs, "FundingError", "ERROR")
                  /\ lastOp' = "fund:noFleet"
                  /\ UNCHANGED <<isFunding, fund>>
             ELSE IF ~parseEtherOk(fundingAmount)
             THEN \* parseEther throws inside fundWallets
                  /\ logs' = addLog(addLog(p.logs, "Dispersing", "INFO"),
                                    "FundingError", "ERROR")
                  /\ lastOp' = "fund:badAmount"
                  /\ UNCHANGED <<isFunding, fund>>
             ELSE /\ logs' = addLog(p.logs, "Dispersing", "INFO")
                  /\ isFunding' = TRUE
                  /\ fund' = SubmitTransfer([IdleFund EXCEPT !.targets = currentWallets], 1)
                  /\ lastOp' = "fund:started"

\* fundWallets, after the transfer to targets[f.i] resolved (confirmed or
\* failed): the next transfer, or the end of the loop and the 3 s wait.
NextTransfer(f) ==
    LET g == [f EXCEPT !.inflight = @ \ {f.i}]
    IN IF f.i < Len(f.targets)
       THEN SubmitTransfer(g, f.i + 1)
       ELSE [g EXCEPT !.pc = "settle"]

\* catch (e) { console.error(...) } inside the loop: the loop goes on with the
\* next wallet.
AbortAfterFailure(f) == [f EXCEPT !.inflight = @ \ {f.i}, !.pc = "settle"]

AfterFailure(f) == NextTransfer(f)

\* The transfer was accepted: await tx.wait(1) before anything else.
AfterSubmitNoWait(f) ==
    IF f.i < Len(f.targets) THEN SubmitTransfer(f, f.i + 1)
    ELSE [f EXCEPT !.pc = "settle"]

AfterSubmit(f) == [f EXCEPT !.pc = "confirm"]

\* Where fundWallets calls onProgress(i, tx.hash): after await tx.wait(1).
onProgressAt(stage) == stage = "confirmed"

\* await funder.sendTransaction(...) resolves.
FundSubmitResolved(ok) ==
    /\ fund.pc = "submit"
    /\    IF ok
          THEN /\ fund' = AfterSubmit(fund)
               /\ lastOp' = "fund:submitted"
               /\ logs' = IF onProgressAt("submitted")
                          THEN addLogW(logs, "Funded", "SUCCESS", fund.i, TRUE)
                          ELSE logs
               /\ heap' = IF onProgressAt("submitted")
                          THEN SetStatus(heap, wallets, fund.i, "funding") ELSE heap
          ELSE /\ fund' = AfterFailure(fund)
               /\ lastOp' = "fund:submitFailed"
               /\ logs' = IF fund'.pc = "settle"
                          THEN addLog(logs, "FundsConfirmed", "WARNING") ELSE logs
               /\ heap' = heap
    /\ UNCHANGED <<gen, logIds, isFunding, isSwarming, wallets, stats, nextId, swarm,
                   refreshers, ops>>

\* await tx.wait(1) resolves; onProgress runs only when it resolved normally.
FundConfirmResolved(ok) ==
    /\ fund.pc = "confirm"
    /\ fund' = IF ok THEN NextTransfer(fund) ELSE AfterFailure(fund)
    /\    LET l1 == IF ok /\ onProgressAt("confirmed")
                   THEN addLogW(logs, "Funded", "SUCCESS", fund.i, TRUE)
                   ELSE logs
          IN /\ logs' = IF fund'.pc = "settle"
                        THEN addLog(l1, "FundsConfirmed", "WARNING") ELSE l1
             /\ heap' = IF ok /\ onProgressAt("confirmed")
                        THEN SetStatus(heap, wallets, fund.i, "funding") ELSE heap
             /\ lastOp' = IF ok THEN "fund:confirmed" ELSE "fund:confirmFailed"
    /\ UNCHANGED <<gen, logIds, isFunding, isSwarming, wallets, stats, nextId, swarm,
                   refreshers, ops>>

\* The 3 s timer fires: updateFleetBalances(currentWallets) starts.
FundSettled ==
    /\ fund.pc = "settle"
    /\ logs' = addLog(logs, "Refreshing", "INFO")
    /\ fund' = [fund EXCEPT !.pc = "refresh", !.j = 1]
    /\ lastOp' = "fund:settled"
    /\ UNCHANGED <<gen, logIds, isFunding, isSwarming, wallets, stats, heap, nextId, swarm,
                   refreshers, ops>>

\* updateFleetBalances awaited by handleFundFleet: one getBalance resolves.
FundRefreshStep ==
    /\ fund.pc = "refresh"
    /\ \E bal \in Balances :
          heap' = [heap EXCEPT ![fund.targets[fund.j]].balance = bal]
    /\ IF fund.j < Len(fund.targets)
       THEN /\ fund' = [fund EXCEPT !.j = @ + 1]
            /\ lastOp' = "fund:balance"
            /\ UNCHANGED <<isFunding, wallets, logs>>
       ELSE /\ wallets' = fund.targets
            /\ logs' = addLog(logs, "FundingComplete", "SUCCESS")
            /\ isFunding' = FALSE
            /\ fund' = [fund EXCEPT !.pc = "idle", !.j = 0]
            /\ lastOp' = "fund:complete"
    /\ UNCHANGED <<gen, logIds, isSwarming, stats, nextId, swarm, refreshers, ops>>

\* ---- updateFleetBalances, not awaited (refresh button, end of a swarm) ----

\* updateFleetBalances(currentWallets) up to its first await: the log entry and
\* the copy of the array.  An empty array is written back at once.
StartRefresh(rs, ws) == IF Len(ws) = 0 THEN rs ELSE Append(rs, [snap |-> ws, j |-> 1])

RemoveAt(seq, n) == [m \in 1..(Len(seq) - 1) |-> IF m < n THEN seq[m] ELSE seq[m + 1]]

\* One getBalance of a background pass resolves; after the last one the pass
\* stores its array as the fleet: setWallets(updatedWallets).
RefreshDone(r) == [ws |-> r.snap]

RefreshStep ==
    \E n \in 1..Len(refreshers) :
       LET r == refreshers[n]
       IN /\ \E bal \in Balances : heap' = [heap EXCEPT ![r.snap[r.j]].balance = bal]
          /\ IF r.j < Len(r.snap)
             THEN /\ refreshers' = [refreshers EXCEPT ![n].j = @ + 1]
                  /\ wallets' = wallets
                  /\ lastOp' = "refresh:balance"
             ELSE /\ refreshers' = RemoveAt(refreshers, n)
                  /\ wallets' = RefreshDone(r).ws
                  /\ lastOp' = "refresh:done"
          /\ UNCHANGED <<gen, logIds, isFunding, isSwarming, logs, stats, nextId, fund, swarm, ops>>

\* The Refresh button: rendered for a non-empty fleet, disabled while busy.
RefreshClicked ==
    /\ Len(wallets) > 0
    /\ ~isBusy
    /\ ops' = [ops EXCEPT !.refresh = @ + 1]
    /\ logs' = addLog(logs, "Refreshing", "INFO")
    /\ refreshers' = StartRefresh(refreshers, wallets)
    /\ lastOp' = "refresh:started"
    /\ UNCHANGED <<gen, logIds, isFunding, isSwarming, wallets, stats, heap, nextId, fund, swarm>>

RefreshButton ==
    /\ ops.refresh < MaxManual
    /\ RefreshClicked

\* ---- resetFleet ----

resetFleetKeepStats ==
    /\ wallets' = <<>>
    /\ stats' = stats
    /\ logs' = addLog(logs, "FleetReset", "INFO")

resetFleet ==
    /\ wallets' = <<>>
    /\ stats' = ZeroStats
    /\ logs' = addLog(logs, "FleetReset", "INFO")

\* The Reset Fleet button: rendered for a non-empty fleet, disabled while busy.
ResetEnabled == Len(wallets) > 0 /\ ~isBusy

ResetButton ==
    /\ IF ResetEnabled
       THEN /\ ops.reset < MaxResets
            /\ ops' = [ops EXCEPT !.reset = @ + 1]
            /\ resetFleet
            /\ lastOp' = "reset:done"
       ELSE /\ lastOp' = "reset:disabled"
            /\ UNCHANGED <<wallets, stats, logs, ops>>
    /\ UNCHANGED <<gen, logIds, isFunding, isSwarming, heap, nextId, fund, swarm, refreshers>>

\* ---- handleStartSwarm ----

\* A wallet task: its place, the loop counter i, the local nonce, and what it
\* did so far: the start nonce it fetched (-1: none), the number of fetches,
\* the nonces it submitted, the transactions executeInteraction returned a
\* hash for (ok) and those it threw for (failed); mined counts the accepted
\* transactions the chain has confirmed since, which the task never learns.
NewTask == [pc |-> "nonce", i |-> 0, nonce |-> 0, n0 |-> -1, fetches |-> 0,
            sent |-> <<>>, ok |-> 0, failed |-> 0, mined |-> 0]

\* The promise of a wallet task is settled: it returned after its loop or
\* from the catch of the nonce fetch.
TaskFinishedOnlyDone(t) == t.pc = "done"

TaskFinished(t) == t.pc \in {"done", "abandoned"}

\* if (isFunding || isSwarming) return;
SwarmEntryOnlyFunding == isFunding

SwarmEntryBusy == isFunding \/ isSwarming

\* if (!targetContract)
TargetNeverMissing(targetContract) == FALSE

MissingTarget(targetContract) == targetContract = ""

\* setStats({ totalTx: 0, successfulTx: 0, failedTx: 0 })
StatsKept(s) == s

StatsAtStart(s) == ZeroStats

handleStartSwarm(targetContract, interactionsPerWallet) ==
    IF SwarmEntryBusy
    THEN /\ lastOp' = "swarm:busy"
         /\ UNCHANGED <<gen, logIds, isFunding, isSwarming, logs, wallets, stats, heap,
                        nextId, fund, swarm, refreshers, ops>>
    ELSE
    /\ ops' = [ops EXCEPT !.swarm = @ + 1,
                          !.tx = IF targetContract # "" /\ Len(wallets) > 0
                                 THEN @ + interactionsPerWallet ELSE @]
    /\ UNCHANGED <<gen, logIds, isFunding, wallets, heap, nextId, fund, refreshers>>
    /\ IF MissingTarget(targetContract)
       THEN /\ logs' = addLog(logs, "TargetRequired", "ERROR")
            /\ lastOp' = "swarm:noTarget"
            /\ UNCHANGED <<isSwarming, stats, swarm>>
       ELSE IF Len(wallets) = 0
       THEN /\ logs' = addLog(logs, "NoFleet", "ERROR")
            /\ lastOp' = "swarm:noFleet"
            /\ UNCHANGED <<isSwarming, stats, swarm>>
       ELSE /\ isSwarming' = TRUE
            /\ stats' = StatsAtStart(stats)
            /\ logs' = addLog(addLog(addLog(addLog(logs, "Initiating", "INFO"),
                                 "Target", "INFO"), "Intensity", "INFO"),
                                 "GasLimit", "INFO")
            \* wallets.map(async ...): every task runs to its getWalletNonce
            /\ swarm' = [pc |-> "running", ws |-> wallets,
                         k |-> interactionsPerWallet, target |-> targetContract,
                         payload |-> gen.customData, gasLimit |-> gasLimit,
                         tasks |-> [w \in 1..Len(wallets) |-> NewTask]]
            /\ lastOp' = "swarm:started"

\* Loop head of a wallet task, for (let i = 0; i < interactionsPerWallet; i++):
\* the next transaction is handed to executeInteraction with nonce++, or the
\* loop is over.
LoopHeadSameNonce(t, k) ==
    IF t.i < k
    THEN [t EXCEPT !.pc = "tx", !.sent = Append(@, t.nonce)]
    ELSE [t EXCEPT !.pc = "done"]

LoopHeadNoAwait(t, k) ==
    IF t.i < k
    THEN [t EXCEPT !.pc = "tx", !.sent = Append(Append(@, t.nonce), t.nonce + 1),
                   !.nonce = @ + 2]
    ELSE [t EXCEPT !.pc = "done"]

LoopHead(t, k) ==
    IF t.i < k
    THEN [t EXCEPT !.pc = "tx", !.sent = Append(@, t.nonce), !.nonce = @ + 1]
    ELSE [t EXCEPT !.pc = "done"]

\* The status the loop head writes: 'sending' before a transaction, 'done'
\* after the loop.
LoopHeadStatus(t, k) == IF t.i < k THEN "sending" ELSE "done"

\* await Promise.all(walletPromises)
AnyFinished(tasks) == \E w \in 1..Len(tasks) : TaskFinished(tasks[w])

AllFinished(tasks) == \A w \in 1..Len(tasks) : TaskFinished(tasks[w])

\* A step of wallet task w, then the rest of handleStartSwarm if that was the
\* last task to finish: the log entry, the refresh pass it starts without
\* awaiting it, and finally setIsSwarming(false).
TaskStep(w, t, l, h, st, op) ==
    LET tasks == [swarm.tasks EXCEPT ![w] = t]
    IN /\ heap' = h
       /\ stats' = st
       /\ IF AllFinished(tasks)
          THEN /\ logs' = addLog(addLog(l, "SwarmComplete", "SUCCESS"),
                                 "Refreshing", "INFO")
               /\ refreshers' = StartRefresh(refreshers, wallets)
               /\ isSwarming' = FALSE
               /\ swarm' = [swarm EXCEPT !.tasks = tasks, !.pc = "complete"]
               /\ lastOp' = "swarm:complete"
          ELSE /\ logs' = l
               /\ swarm' = [swarm EXCEPT !.tasks = tasks]
               /\ lastOp' = op
               /\ UNCHANGED <<isSwarming, refreshers>>
       /\ UNCHANGED <<gen, logIds, isFunding, wallets, nextId, fund, ops>>

\* catch (e) { addLog(...); return; } of the nonce fetch: no wallet is written.
MarkErrorAfterNonceFailure(h, ws, w) == SetStatus(h, ws, w, "error")

AfterNonceFailure(h, ws, w) == h

\* await getWalletNonce(wallet.address) resolves or throws.
\* n0 is the count the chain reports, or -1 when the call throws.
NonceResolved(w, n0) ==
    /\ swarm.pc = "running"
    /\ w \in 1..Len(swarm.tasks)
    /\ swarm.tasks[w].pc = "nonce"
    /\ IF n0 >= 0
       THEN LET t == [swarm.tasks[w] EXCEPT !.nonce = n0, !.n0 = n0, !.fetches = @ + 1]
            IN TaskStep(w, LoopHead(t, swarm.k), logs,
                        SetStatus(heap, wallets, w, LoopHeadStatus(t, swarm.k)),
                        stats, "swarm:nonce")
       ELSE TaskStep(w, [swarm.tasks[w] EXCEPT !.pc = "abandoned", !.fetches = @ + 1],
                     addLogW(logs, "NonceFailed", "ERROR", w, FALSE),
                     AfterNonceFailure(heap, wallets, w), stats, "swarm:nonceFailed")

\* setStats of the success branch and of the catch branch.
CountSuccessOnly(s) == [s EXCEPT !.successfulTx = @ + 1]

CountFailureOnly(s) == [s EXCEPT !.failedTx = @ + 1]

CountSuccess(s) ==
    [s EXCEPT !.totalTx = @ + 1, !.successfulTx = @ + 1]

CountFailure(s) ==
    [s EXCEPT !.totalTx = @ + 1, !.failedTx = @ + 1]

\* await executeInteraction(...) resolves with the hash or throws; the task
\* then sleeps 200 ms.
TxResolved(w, ok) ==
    /\ swarm.pc = "running"
    /\ w \in 1..Len(swarm.tasks)
    /\ swarm.tasks[w].pc = "tx"
    /\ IF ok
       THEN TaskStep(w, [swarm.tasks[w] EXCEPT !.pc = "delay", !.ok = @ + 1],
                     addLogW(logs, "TxConfirmed", "SUCCESS", w, TRUE),
                     IncTxCount(heap, wallets, w),
                     CountSuccess(stats), "swarm:txOk")
       ELSE TaskStep(w, [swarm.tasks[w] EXCEPT !.pc = "delay", !.failed = @ + 1],
                     addLogW(logs, "TxFailed", "ERROR", w, FALSE),
                     SetStatus(heap, wallets, w, "error"),
                     CountFailure(stats), "swarm:txFailed")

\* The 200 ms timer fires: i++ and the loop head.
DelayDone(w) ==
    /\ swarm.pc = "running"
    /\ w \in 1..Len(swarm.tasks)
    /\ swarm.tasks[w].pc = "delay"
    /\ LET t == [swarm.tasks[w] EXCEPT !.i = @ + 1]
       IN TaskStep(w, LoopHead(t, swarm.k), logs,
                   SetStatus(heap, wallets, w, LoopHeadStatus(t, swarm.k)),
                   stats, "swarm:delay")

\* ---- celoService: executeInteraction ----

\* The request executeInteraction hands to wallet.sendTransaction.  It has
\* four parameters; the fifth argument of the call in handleStartSwarm
\* (gasLimit) is dropped, so the request carries no gas limit (the empty set
\* here) and the chain client estimates.
executeInteraction(walletData, targetContract, data, nonce) ==
    [from |-> walletData, to |-> targetContract, value |-> 0,
     data |-> IF data = "" THEN "0x" ELSE data,
     nonce |-> {nonce}, gasLimit |-> {}]

\* executeInteraction(wallet, targetContract, customData, nonce++, gasLimit) of
\* task w, j-th iteration: the values are those of the render the handler was
\* invoked in.
Requests(w) ==
    [j \in 1..Len(swarm.tasks[w].sent) |->
        executeInteraction(swarm.ws[w], swarm.target, swarm.payload,
                           swarm.tasks[w].sent[j])]

\* The chain confirms a transaction it had accepted.  Nothing awaits it.
ChainConfirms(w) ==
    /\ swarm.pc \in {"running", "complete"}
    /\ w \in 1..Len(swarm.tasks)
    /\ swarm.tasks[w].mined < swarm.tasks[w].ok
    /\ swarm' = [swarm EXCEPT !.tasks[w].mined = @ + 1]
    /\ lastOp' = "chain:confirmed"
    /\ UNCHANGED <<isFunding, isSwarming, logs, wallets, stats, heap, nextId,
                   fund, refreshers, gen, logIds, ops>>

\* ---- the application ----

\* The form as handleFundFleet can find it.  In import mode the wallet count
\* is the number of non-blank lines (the effect on importText); fields the
\* handler does not get to read are left at one value.
NonBlank(importText) == Len(SelectSeq(importText, LAMBDA line : line # 0))

FundForms(max) ==
    {f \in [funderKey : FunderKeys, fundingAmount : FundingAmounts,
            walletMode : WalletModes, walletCount : 0..max,
            importText : ImportTexts(max)] :
        /\ f.walletMode = "import" => f.walletCount = NonBlank(f.importText)
        /\ f.walletMode = "generate" => f.importText = <<>>
        /\ ~isValidPrivateKey(f.funderKey) =>
              f.walletMode = "generate" /\ f.walletCount = 0 /\ f.fundingAmount = "0.01"}

\* The commands are bounded; a command refused because the application is
\* busy is not counted.
FundFleetButton ==
    /\ isBusy \/ ops.fund < MaxFunds
    /\ \E f \in FundForms(MaxWallets) :
          handleFundFleet(f.funderKey, f.fundingAmount, f.walletMode, f.walletCount,
                          f.importText)

StartSwarmButton ==
    /\ isBusy \/ ops.swarm < MaxSwarms
    /\ \E targetContract \in Targets, interactionsPerWallet \in Intensities :
          handleStartSwarm(targetContract, interactionsPerWallet)

Slots == 1..MaxHeap

Next ==
    \/ FundFleetButton
    \/ \E ok \in BOOLEAN : FundSubmitResolved(ok)
    \/ \E ok \in BOOLEAN : FundConfirmResolved(ok)
    \/ FundSettled
    \/ FundRefreshStep
    \/ StartSwarmButton
    \/ \E w \in Slots, n0 \in -1..MaxNonce : NonceResolved(w, n0)
    \/ \E w \in Slots, ok \in BOOLEAN : TxResolved(w, ok)
    \/ \E w \in Slots : DelayDone(w)
    \/ RefreshButton
    \/ RefreshStep
    \/ ResetButton

Spec == Init /\ [][Next]_vars

\* ---- one fleet, funded without a failure, then swarm runs ----
\* Two wallets are generated and funded, every transfer confirming; then the
\* operator starts swarm runs with a target set, and may reset the fleet.

SwarmFund ==
    /\ ops.fund = 0
    /\ handleFundFleet("funder", "0.01", "generate", SwarmWallets, <<>>)

SwarmStart ==
    /\ ~isBusy
    /\ ops.swarm < SwarmRuns
    /\ Len(refreshers) < MaxRefreshers
    /\ \E interactionsPerWallet \in 0..SwarmK :
          /\ ops.tx + interactionsPerWallet <= MaxTx
          /\ handleStartSwarm("0xABC", interactionsPerWallet)

NextSwarm ==
    \/ SwarmFund
    \/ FundSubmitResolved(TRUE)
    \/ FundConfirmResolved(TRUE)
    \/ FundSettled
    \/ FundRefreshStep
    \/ SwarmStart
    \/ \E w \in Slots, n0 \in -1..MaxNonce : NonceResolved(w, n0)
    \/ \E w \in Slots, ok \in BOOLEAN : TxResolved(w, ok)
    \/ \E w \in Slots : DelayDone(w)
    \/ RefreshStep
    \/ ResetButton

SpecSwarm == Init /\ [][NextSwarm]_vars

\* ---- fund operations over larger fleets ----
\* One fleet is prepared (generated or imported) and funded, transfers failing
\* or not; the operator may fund the same fleet again.

FundLarge ==
    /\ ~isBusy
    /\ ops.fund < MaxFunds
    /\ \E f \in FundForms(FundWallets) :
          handleFundFleet(f.funderKey, f.fundingAmount, f.walletMode, f.walletCount,
                          f.importText)

NextFund ==
    \/ FundLarge
    \/ \E ok \in BOOLEAN : FundSubmitResolved(ok)
    \/ \E ok \in BOOLEAN : FundConfirmResolved(ok)
    \/ FundSettled
    \/ FundRefreshStep

SpecFund == Init /\ [][NextFund]_vars

\* ---- the end-to-end scenario ----
\* Wallets are generated and funded, then one swarm run with a target, an
\* empty payload and every call of the chain client succeeding.

E2EFund ==
    /\ ops.fund = 0
    /\ handleFundFleet("funder", "0.01", "generate", E2EWallets, <<>>)

E2EStart ==
    /\ ~isBusy
    /\ ops.swarm = 0
    /\ Len(wallets) > 0
    /\ handleStartSwarm("0xABC", E2EK)

NextE2E ==
    \/ E2EFund
    \/ FundSubmitResolved(TRUE)
    \/ FundConfirmResolved(TRUE)
    \/ FundSettled
    \/ FundRefreshStep
    \/ E2EStart
    \/ \E w \in Slots, n0 \in 0..MaxNonce : NonceResolved(w, n0)
    \/ \E w \in Slots : TxResolved(w, TRUE)
    \/ \E w \in Slots : DelayDone(w)
    \/ RefreshStep

SpecE2E == Init /\ [][NextE2E]_vars

\* ---- geminiService and handleAiGeneration ----

AiPrompts == {"", "intent"}
\* How the model call of generateInteractionData ends: no API key (no call),
\* the call throws, the response has no text, the text is no JSON, or the
\* text parses.
GenOutcomes == {"noKey", "throws", "empty", "unparseable", "parsed"}
AnalyzeOutcomes == {"noKey", "throws", "empty", "text"}

Suggestion(hexData, reasoning) ==
    [threw |-> FALSE, hexData |-> hexData, reasoning |-> reasoning]

\* generateInteractionData: the fallback without a key, and the try/catch
\* around the call, the empty-response throw and JSON.parse.
generateInteractionDataNoCatch(outcome) ==
    IF outcome = "noKey" THEN Suggestion("0x", "ApiKeyMissing")
    ELSE IF outcome = "parsed" THEN Suggestion("0xdata", "model")
    ELSE [threw |-> TRUE, hexData |-> "", reasoning |-> ""]

generateInteractionData(outcome) ==
    IF outcome = "noKey" THEN Suggestion("0x", "ApiKeyMissing")
    ELSE IF outcome = "parsed" THEN Suggestion("0xdata", "model")
    ELSE Suggestion("0x", "FailedToGenerate")

analyzeContractStrategy(outcome) ==
    IF outcome = "noKey" THEN "Unavailable"
    ELSE IF outcome = "throws" THEN "AnalysisFailed"
    ELSE IF outcome = "empty" THEN "NoStrategy"
    ELSE "strategy"

\* handleAiGeneration up to its first await; promptToUse is
\* promptOverride || aiPrompt.
handleAiGeneration(targetContract, promptToUse) ==
    /\ ops' = [ops EXCEPT !.ai = @ + 1]
    /\ IF targetContract = ""
       THEN /\ logs' = addLog(logs, "TargetFirst", "WARNING")
            /\ gen' = gen
            /\ lastOp' = "ai:noTarget"
       ELSE IF promptToUse = ""
       THEN /\ logs' = addLog(logs, "IntentFirst", "WARNING")
            /\ gen' = gen
            /\ lastOp' = "ai:noPrompt"
       ELSE /\ logs' = addLog(logs, "GeminiProcessing", "INFO")
            /\ gen' = [gen EXCEPT !.isGeneratingAi = TRUE,
                                  !.runs = Append(@, "generate")]
            /\ lastOp' = "ai:started"
    /\ UNCHANGED <<isFunding, isSwarming, wallets, stats, heap, nextId, fund,
                   swarm, refreshers, logIds>>

\* await generateInteractionData(...) is over: setCustomData and the log entry,
\* then analyzeContractStrategy is awaited; or the catch and the finally.
GenerateResolved(n, outcome) ==
    /\ n \in 1..Len(gen.runs)
    /\ gen.runs[n] = "generate"
    /\ LET result == generateInteractionData(outcome)
       IN IF result.threw
          THEN /\ logs' = addLog(logs, "AiFailed", "ERROR")
               /\ gen' = [gen EXCEPT !.result = result, !.isGeneratingAi = FALSE,
                                     !.runs = RemoveAt(@, n)]
               /\ lastOp' = "ai:failed"
          ELSE /\ logs' = addLog(logs, "PayloadGenerated", "SUCCESS")
               /\ gen' = [gen EXCEPT !.customData = result.hexData,
                                     !.result = result, !.runs[n] = "analyze"]
               /\ lastOp' = "ai:generated"
    /\ UNCHANGED <<isFunding, isSwarming, wallets, stats, heap, nextId, fund,
                   swarm, refreshers, logIds, ops>>

\* await analyzeContractStrategy(...) is over: setAiStrategy, then the finally.
AnalyzeResolved(n, outcome) ==
    /\ n \in 1..Len(gen.runs)
    /\ gen.runs[n] = "analyze"
    /\ gen' = [gen EXCEPT !.aiStrategy = analyzeContractStrategy(outcome),
                          !.isGeneratingAi = FALSE, !.runs = RemoveAt(@, n)]
    /\ lastOp' = "ai:done"
    /\ UNCHANGED <<isFunding, isSwarming, logs, wallets, stats, heap, nextId,
                   fund, swarm, refreshers, logIds, ops>>

\* ---- the AI panel alone ----
\* The quick-action and send buttons are disabled while a generation runs;
\* the Enter key of the intent field is not.

AiCommand ==
    /\ ops.ai < MaxGens
    /\ \E targetContract \in Targets, promptToUse \in AiPrompts :
          handleAiGeneration(targetContract, promptToUse)

GenSlots == 1..MaxGens

NextAi ==
    \/ AiCommand
    \/ \E n \in GenSlots, outcome \in GenOutcomes : GenerateResolved(n, outcome)
    \/ \E n \in GenSlots, outcome \in AnalyzeOutcomes : AnalyzeResolved(n, outcome)

SpecAi == Init /\ [][NextAi]_vars

\* ---- one swarm run, its requests and the chain ----
\* A fleet is generated and funded; a payload may be generated at any time;
\* one swarm run is started with a target; the chain confirms accepted
\* transactions when it pleases.

TxFund ==
    /\ ops.fund = 0
    /\ handleFundFleet("funder", "0.01", "generate", TxWallets, <<>>)

TxAi ==
    /\ ops.ai = 0
    /\ handleAiGeneration("0xABC", "intent")

TxStart ==
    /\ ~isBusy
    /\ ops.swarm = 0
    /\ Len(wallets) > 0
    /\ \E interactionsPerWallet \in 1..TxK :
          handleStartSwarm("0xABC", interactionsPerWallet)

NextTx ==
    \/ TxFund
    \/ FundSubmitResolved(TRUE)
    \/ FundConfirmResolved(TRUE)
    \/ FundSettled
    \/ FundRefreshStep
    \/ TxAi
    \/ \E outcome \in {"throws", "parsed"} : GenerateResolved(1, outcome)
    \/ AnalyzeResolved(1, "text")
    \/ TxStart
    \/ \E w \in Slots, n0 \in 0..MaxNonce : NonceResolved(w, n0)
    \/ \E w \in Slots, ok \in BOOLEAN : TxResolved(w, ok)
    \/ \E w \in Slots : DelayDone(w)
    \/ \E w \in Slots : ChainConfirms(w)
    \/ RefreshStep

SpecTx == Init /\ [][NextTx]_vars

\* ---- a refresh pass that outlives its fleet ----
\* Fleets of one or two wallets are generated; the operator may refresh and
\* reset between two Fund Fleet commands, and starts one swarm run of one
\* transaction per wallet.  Transfers confirm; swarm transactions may fail.

RaceFund ==
    /\ ~isBusy
    /\ ops.fund < MaxFunds
    /\ \E fundingAmount \in FundingAmounts, walletCount \in 1..RaceWallets :
          handleFundFleet("funder", fundingAmount, "generate", walletCount, <<>>)

RaceStart ==
    /\ ~isBusy
    /\ ops.swarm = 0
    /\ Len(wallets) > 0
    /\ handleStartSwarm("0xABC", 1)

RaceRefresh ==
    /\ ops.refresh < RaceManual
    /\ RefreshClicked

NextRace ==
    \/ RaceFund
    \/ FundSubmitResolved(TRUE)
    \/ FundConfirmResolved(TRUE)
    \/ FundSettled
    \/ FundRefreshStep
    \/ RaceStart
    \/ \E w \in Slots : NonceResolved(w, 0)
    \/ \E w \in Slots, ok \in BOOLEAN : TxResolved(w, ok)
    \/ \E w \in Slots : DelayDone(w)
    \/ RaceRefresh
    \/ RefreshStep
    \/ ResetEnabled /\ ResetButton

SpecRace == Init /\ [][NextRace]_vars

\* ---- the application when every awaited call returns or throws ----
\* An awaited call of the chain client resolves or rejects in the end and a
\* timer fires: the step that continues a fund or swarm operation in flight
\* is taken eventually.  The operator's commands and the passes nobody awaits
\* get no such promise.

Continue ==
    \/ \E ok \in BOOLEAN : FundSubmitResolved(ok)
    \/ \E ok \in BOOLEAN : FundConfirmResolved(ok)
    \/ FundSettled
    \/ FundRefreshStep
    \/ \E w \in Slots, n0 \in -1..MaxNonce : NonceResolved(w, n0)
    \/ \E w \in Slots, ok \in BOOLEAN : TxResolved(w, ok)
    \/ \E w \in Slots : DelayDone(w)

SpecLive == Init /\ [][Next]_vars /\ WF_vars(Continue)

\* ---- addLog and the ids of its entries ----
\* The calls of addLog as any operation makes them, with the id each entry
\* gets.  The other specifications leave the ids out: nothing but the key of
\* a table row reads them.

\* Math.random().toString(36).substring(7): a few base-36 digits of a random
\* number; nothing keeps two draws apart.
LogIdSpace == {"k3x9f", "q07zr", ""}

LogCalls == {<<"FleetReset", "INFO">>, <<"NoFleet", "ERROR">>,
             <<"Generated", "SUCCESS">>, <<"TargetFirst", "WARNING">>}

\* addLog(message, type): the entry is built with the id drawn and appended.
AddLogEntry(message, type, id) ==
    /\ Len(logs) < MaxLogs
    /\ logs' = addLog(logs, message, type)
    /\ logIds' = Append(logIds, id)
    /\ lastOp' = "log:added"
    /\ UNCHANGED <<isFunding, isSwarming, wallets, stats, heap, nextId, fund,
                   swarm, refreshers, gen, ops>>

NextLog ==
    \E call \in LogCalls, id \in LogIdSpace : AddLogEntry(call[1], call[2], id)

SpecLog == Init /\ [][NextLog]_vars

\* ======================= claims =======================

TaskIds == 1..Len(swarm.tasks)

FundInFlight == fund.pc # "idle"

SwarmInFlight == swarm.pc = "running"

\* What a command must leave alone to have done nothing.
effects == <<isFunding, isSwarming, logs, wallets, stats, heap, nextId, fund,
             swarm, refreshers, gen>>

\* C1: after initialization the aggregate stats always satisfy
\* totalTx = successfulTx + failedTx: between any two steps of the wallet
\* tasks, after a reset of the fleet and after a swarm was started again.
C1_StatsAddUp == stats.totalTx = stats.successfulTx + stats.failedTx

C1_Witness ==
    /\ swarm.pc = "running"
    /\ ops.swarm = 2
    /\ stats.successfulTx >= 1
    /\ stats.failedTx >= 1
    /\ \E w \in TaskIds : swarm.tasks[w].pc = "tx"

\* C2: at most one fund or swarm operation is in flight, and a Fund Fleet or
\* Start Swarm command given while one is in flight changes nothing: no log
\* entry, no reset of the stats, no change of a wallet, no transaction.
C2_OneInFlight ==
    /\ [](~(FundInFlight /\ SwarmInFlight))
    /\ []((FundInFlight => isFunding) /\ (SwarmInFlight => isSwarming))
    /\ [][(isBusy /\ (FundFleetButton \/ StartSwarmButton)) => UNCHANGED effects]_vars

C2_Witness ==
    /\ lastOp = "swarm:busy"
    /\ isSwarming
    /\ stats.totalTx > 0

\* C3 (as claimed): while a fund or swarm operation is in flight a Reset Fleet
\* command leaves the fleet and the stats unchanged, and no step taken between
\* the start and the completion of a swarm run changes the fleet.
C3_FleetFixedDuringRun ==
    [][/\ (isBusy /\ ResetButton) => UNCHANGED <<wallets, stats>>
       /\ isSwarming => wallets' = wallets]_vars

\* C4: a Reset Fleet command given while nothing is in flight leaves the fleet
\* empty and the three counters at zero.
C4_ResetClears ==
    lastOp = "reset:done" => (wallets = <<>> /\ stats = ZeroStats)

C4_Witness ==
    /\ lastOp = "reset:done"
    /\ swarm.pc = "complete"
    /\ \E w \in TaskIds : swarm.tasks[w].ok > 0

\* C5: when a swarm run over w wallets with k transactions per wallet
\* completes, totalTx is k times the number of wallets whose nonce fetch
\* succeeded, whatever failed and however the tasks interleaved.
FetchedTasks == {w \in TaskIds : swarm.tasks[w].n0 >= 0}

C5_TotalIsKTimesFetched ==
    lastOp = "swarm:complete" =>
        stats.totalTx = swarm.k * Cardinality(FetchedTasks)

C5_Witness ==
    /\ lastOp = "swarm:complete"
    /\ swarm.k = 2
    /\ \E w \in TaskIds : swarm.tasks[w].pc = "abandoned"
    /\ \E w \in TaskIds : swarm.tasks[w].ok = 1 /\ swarm.tasks[w].failed = 1

\* C6 (as claimed): when a swarm run completes, the first or a later one on
\* the same fleet, every wallet's txCount is the number of its transactions
\* confirmed in that run and at most k; and txCount never decreases.
C6_TxCountIsRunSuccesses ==
    /\ [](lastOp = "swarm:complete" =>
            \A w \in TaskIds :
               /\ heap[swarm.ws[w]].txCount = swarm.tasks[w].ok
               /\ heap[swarm.ws[w]].txCount <= swarm.k)
    /\ [][\A id \in Ids : id < nextId => heap'[id].txCount >= heap[id].txCount]_vars

\* C7 (as claimed): when a swarm run completes, every wallet whose task made
\* all k attempts has status done, whatever failed.
C7_DoneAfterAllAttempts ==
    lastOp = "swarm:complete" =>
        \A w \in TaskIds :
           swarm.tasks[w].pc = "done" => heap[swarm.ws[w]].status = "done"

\* C8: within one fund operation the transfers are submitted in ascending
\* fleet order, one at a time: the transfer to wallet i+1 is submitted only
\* when the transfer to wallet i was confirmed or has failed.
C8_FundingSequential ==
    /\ Cardinality(fund.inflight) <= 1
    /\ \A n \in 1..Len(fund.submitted) : fund.submitted[n] = n
    /\ \A i \in fund.inflight : i = Len(fund.submitted)

C8_Witness ==
    /\ fund.pc = "confirm"
    /\ fund.i = FundWallets
    /\ heap[fund.targets[1]].status = "idle"
    /\ heap[fund.targets[2]].status = "funding"

\* C9: in a swarm run every wallet's nonce is fetched once, before its first
\* transaction, and its j-th submission carries n0 + j, n0 being the fetched
\* value, whether or not earlier submissions succeeded: no nonce twice.
C9_NoncesContiguous ==
    \A w \in TaskIds :
       LET t == swarm.tasks[w]
       IN /\ t.fetches <= 1
          /\ Len(t.sent) > 0 => (t.fetches = 1 /\ t.n0 >= 0)
          /\ \A j \in 1..Len(t.sent) : t.sent[j] = t.n0 + j - 1
          /\ \A j1, j2 \in 1..Len(t.sent) : t.sent[j1] = t.sent[j2] => j1 = j2
          /\ Len(t.sent) = (IF t.pc \in {"tx", "delay"} THEN t.i + 1
                            ELSE IF t.n0 >= 0 THEN t.i ELSE 0)

C9_Witness ==
    \E w \in TaskIds :
       /\ swarm.tasks[w].n0 = 1
       /\ swarm.tasks[w].failed = 1
       /\ swarm.tasks[w].sent = <<1, 2>>

\* C10: two wallets generated and funded, then a swarm of 3 transactions per
\* wallet with every call succeeding, ends with totalTx = successfulTx = 6,
\* failedTx = 0, both wallets done with txCount 3 and six swarm success log
\* entries, however the two tasks interleave.
SwarmSuccessEntries ==
    {n \in 1..Len(logs) : logs[n].message = "TxConfirmed" /\ logs[n].type = "SUCCESS"}

C10_EndToEnd ==
    swarm.pc = "complete" =>
        /\ stats = [totalTx |-> E2EWallets * E2EK,
                    successfulTx |-> E2EWallets * E2EK, failedTx |-> 0]
        /\ Len(wallets) = E2EWallets
        /\ \A w \in 1..Len(wallets) :
              /\ heap[wallets[w]].status = "done"
              /\ heap[wallets[w]].txCount = E2EK
        /\ Cardinality(SwarmSuccessEntries) = E2EWallets * E2EK

C10_Witness ==
    /\ swarm.pc = "complete"
    /\ refreshers = <<>>
    /\ logs[Len(logs) - 2].message = "TxConfirmed"
    /\ logs[Len(logs) - 2].w = 1

\* Log entries of one severity.
EntriesOf(l, type) == Cardinality({n \in 1..Len(l) : l[n].type = type})

InvalidLines(importText) == Len(SelectSeq(importText, LAMBDA line : line = -1))

\* handleFundFleet gets to prepareFleet in import mode with form f.
ImportStep(f) ==
    /\ ~isBusy
    /\ Len(wallets) = 0
    /\ f.walletMode = "import"
    /\ isValidPrivateKey(f.funderKey)
    /\ handleFundFleet(f.funderKey, f.fundingAmount, f.walletMode, f.walletCount,
                       f.importText)

\* C11 (as claimed): in import mode prepare fleet yields one wallet per line
\* that parses as a key, in input order, blank lines ignored; every invalid
\* line adds one WARNING log entry; when no line is valid the fleet stays
\* empty, an ERROR entry is logged and no transfer is submitted.
C11_ImportCountsValidLines ==
    [][\A f \in FundForms(FundWallets) :
          ImportStep(f) =>
             LET keys == ValidKeyLines(f.importText)
             IN /\ Len(wallets') = Len(keys)
                /\ \A n \in 1..Len(wallets') :
                      heap'[wallets'[n]].address = ImportAddress(keys[n])
                /\ EntriesOf(logs', "WARNING")
                      = EntriesOf(logs, "WARNING") + InvalidLines(f.importText)
                /\ Len(keys) = 0 =>
                      /\ wallets' = <<>>
                      /\ EntriesOf(logs', "ERROR") > EntriesOf(logs, "ERROR")
                      /\ fund' = fund
                      /\ ~isFunding']_vars

\* handleFundFleet gets to prepareFleet in generate mode with form f.
GenerateStep(f) ==
    /\ ~isBusy
    /\ Len(wallets) = 0
    /\ f.walletMode = "generate"
    /\ f.walletCount >= 1
    /\ isValidPrivateKey(f.funderKey)
    /\ handleFundFleet(f.funderKey, f.fundingAmount, f.walletMode, f.walletCount,
                       f.importText)

\* C12: in generate mode with a requested count n >= 1, prepare fleet makes
\* the fleet exactly n wallets with pairwise distinct addresses, each with
\* balance "0", txCount 0 and status idle.
C12_GenerateExactlyN ==
    [][\A f \in FundForms(FundWallets) :
          GenerateStep(f) =>
             /\ Len(wallets') = f.walletCount
             /\ \A a, b \in 1..Len(wallets') :
                   a # b => heap'[wallets'[a]].address # heap'[wallets'[b]].address
             /\ \A a \in 1..Len(wallets') :
                   /\ heap'[wallets'[a]].balance = "0"
                   /\ heap'[wallets'[a]].txCount = 0
                   /\ heap'[wallets'[a]].status = "idle"]_vars

C12_Witness ==
    /\ lastOp = "fund:started"
    /\ Len(wallets) = FundWallets
    /\ logs[Len(logs) - 1].message = "Generated"
    /\ \A a \in 1..Len(wallets) : heap[wallets[a]].status = "idle"

\* What a command that failed a precondition must leave alone.
untouched == <<isFunding, isSwarming, wallets, stats, heap, nextId, fund, swarm,
               refreshers, gen>>

OneErrorLogged ==
    /\ Len(logs') = Len(logs) + 1
    /\ SubSeq(logs', 1, Len(logs)) = logs
    /\ logs'[Len(logs')].type = "ERROR"

\* C13: a command that fails its precondition does nothing but log one ERROR
\* entry: Fund Fleet with a funder key that does not parse prepares no fleet,
\* submits no transfer and does not set isFunding; Start Swarm with an empty
\* target or an empty fleet submits nothing, keeps the stats, changes no
\* wallet and does not set isSwarming.
C13_PreconditionAborts ==
    [][/\ \A f \in FundForms(MaxWallets) :
             (/\ ~isBusy
              /\ f.funderKey = ""
              /\ handleFundFleet(f.funderKey, f.fundingAmount, f.walletMode,
                                 f.walletCount, f.importText))
             => (UNCHANGED untouched /\ OneErrorLogged)
       /\ \A targetContract \in Targets, interactionsPerWallet \in Intensities :
             (/\ ~isBusy
              /\ targetContract = "" \/ Len(wallets) = 0
              /\ handleStartSwarm(targetContract, interactionsPerWallet))
             => (UNCHANGED untouched /\ OneErrorLogged)]_vars

C13_Witness ==
    /\ lastOp = "swarm:noTarget"
    /\ Len(wallets) > 0
    /\ heap[wallets[1]].status = "funding"
    /\ logs[Len(logs)].message = "TargetRequired"
    /\ \E n \in 1..Len(logs) : logs[n].message = "InvalidFunderKey"

\* C14: funding is best effort.  When the transfer loop of a fund operation is
\* over, every wallet of the fleet had exactly one transfer attempt, in spite
\* of the transfers that failed; and during the operation a wallet becomes
\* funding only by the confirmation of its own transfer, so a wallet whose
\* transfer failed is not marked.
C14_BestEffort ==
    /\ [](fund.pc \in {"settle", "refresh"} =>
             fund.submitted = [n \in 1..Len(fund.targets) |-> n])
    /\ [][\A i \in 1..Len(fund.targets) :
             (/\ isFunding
              /\ heap[fund.targets[i]].status # "funding"
              /\ heap'[fund.targets[i]].status = "funding")
             => (fund.pc = "confirm" /\ fund.i = i /\ FundConfirmResolved(TRUE))]_vars

C14_Witness ==
    /\ fund.pc = "settle"
    /\ ops.fund = 1
    /\ Len(fund.targets) = FundWallets
    /\ fund.submitted = <<1, 2, 3>>
    /\ heap[fund.targets[1]].status = "idle"
    /\ heap[fund.targets[2]].status = "funding"
    /\ heap[fund.targets[3]].status = "idle"

\* C15: a wallet whose nonce fetch fails at the start of a run submits no
\* transaction in that run; the failure logs one ERROR entry for that wallet
\* and changes neither a wallet nor the stats; the wallet's status stays what
\* it was until the run completes; and every other wallet still makes all of
\* its k attempts.
C15_NonceFailureAbandonsOneWallet ==
    /\ [](\A w \in TaskIds :
             swarm.tasks[w].pc = "abandoned" =>
                /\ swarm.tasks[w].sent = <<>>
                /\ swarm.tasks[w].ok = 0 /\ swarm.tasks[w].failed = 0)
    /\ [](lastOp = "swarm:complete" =>
             \A w \in TaskIds :
                swarm.tasks[w].pc # "abandoned" =>
                   /\ Len(swarm.tasks[w].sent) = swarm.k
                   /\ swarm.tasks[w].ok + swarm.tasks[w].failed = swarm.k)
    /\ [][\A w \in TaskIds :
             /\ NonceResolved(w, -1) =>
                   /\ stats' = stats
                   /\ \A id \in Ids : heap'[id].status = heap[id].status
                   /\ logs'[Len(logs) + 1] = LogEntry("NonceFailed", "ERROR", w, FALSE)
                   /\ EntriesOf(logs', "ERROR") = EntriesOf(logs, "ERROR") + 1
             /\ (swarm.pc = "running" /\ swarm.tasks[w].pc = "abandoned") =>
                   heap'[swarm.ws[w]].status = heap[swarm.ws[w]].status]_vars

C15_Witness ==
    /\ lastOp = "swarm:complete"
    /\ swarm.k = 2
    /\ swarm.tasks[1].pc = "abandoned"
    /\ heap[swarm.ws[1]].status = "funding"
    /\ swarm.tasks[2].pc = "done"
    /\ swarm.tasks[2].failed = 1
    /\ Len(swarm.tasks[2].sent) = 2
    /\ stats.totalTx = 2

\* A call of the chain client made for a fund or swarm operation fails.
FundingCallFails == FundSubmitResolved(FALSE) \/ FundConfirmResolved(FALSE)

SwarmCallFails ==
    \E w \in TaskIds : NonceResolved(w, -1) \/ TxResolved(w, FALSE)

NoRetry ==
    /\ \A a, b \in 1..Len(fund.submitted) :
          fund.submitted[a] = fund.submitted[b] => a = b
    /\ \A w \in TaskIds :
          /\ swarm.tasks[w].fetches <= 1
          /\ Len(swarm.tasks[w].sent) <= swarm.k

\* C16 (as claimed): every failed call of the chain client during funding or
\* swarming (a transfer that fails to submit or to confirm, a nonce fetch, a
\* swarm transaction) adds one ERROR entry to the log, and no failed call is
\* made again.
C16_FailuresAreLogged ==
    /\ []NoRetry
    /\ [][(FundingCallFails \/ SwarmCallFails) =>
             EntriesOf(logs', "ERROR") = EntriesOf(logs, "ERROR") + 1]_vars

\* The swarm's half of C16, which the code keeps.
SwarmFailuresAreLogged ==
    /\ []NoRetry
    /\ [][SwarmCallFails =>
             EntriesOf(logs', "ERROR") = EntriesOf(logs, "ERROR") + 1]_vars

\* C17: the payload generator never fails towards its caller: without an API
\* key, when the model call throws, and when the response is empty or does not
\* parse, it returns hexData "0x" with a fallback reasoning, which the panel
\* stores as the payload; and whenever no generation is in flight the
\* generating flag is clear.
C17_GeneratorNeverFails ==
    /\ [](gen.runs = <<>> => ~gen.isGeneratingAi)
    /\ [][/\ \A n \in GenSlots, outcome \in GenOutcomes \ {"parsed"} :
                GenerateResolved(n, outcome) =>
                   /\ ~gen'.result.threw
                   /\ gen'.result.hexData = "0x"
                   /\ gen'.result.reasoning \in {"ApiKeyMissing", "FailedToGenerate"}
                   /\ gen'.customData = "0x"
                   /\ lastOp' = "ai:generated"
          /\ \A n \in GenSlots, outcome \in AnalyzeOutcomes :
                AnalyzeResolved(n, outcome) => ~gen'.isGeneratingAi]_vars

C17_Witness ==
    /\ lastOp = "ai:done"
    /\ gen.runs = <<>>
    /\ ~gen.isGeneratingAi
    /\ gen.customData = "0x"
    /\ gen.result.reasoning = "FailedToGenerate"
    /\ logs[Len(logs)].message = "PayloadGenerated"

FundedEntries(l) ==
    {n \in 1..Len(l) : l[n].message = "Funded" /\ l[n].type = "SUCCESS"}

BecomesFunding(id) ==
    heap[id].status # "funding" /\ heap'[id].status = "funding"

\* C18 (as claimed): during funding, a wallet is marked funding and its
\* success log entry (with the transaction reference) is written only when
\* tx.wait(1) of that wallet's own transfer has resolved: not when the
\* transfer is accepted, and not when the wait fails.
C18_FundedOnlyAfterConfirmation ==
    [][/\ FundSubmitResolved(TRUE) =>
             /\ FundedEntries(logs') = FundedEntries(logs)
             /\ \A id \in Ids : heap'[id].status = heap[id].status
       /\ FundConfirmResolved(FALSE) =>
             /\ FundedEntries(logs') = FundedEntries(logs)
             /\ \A id \in Ids : heap'[id].status = heap[id].status
       /\ FundConfirmResolved(TRUE) =>
             /\ logs'[Len(logs) + 1] = LogEntry("Funded", "SUCCESS", fund.i, TRUE)
             /\ heap'[fund.targets[fund.i]].status = "funding"
       /\ \A id \in Ids :
             BecomesFunding(id) =>
                (FundConfirmResolved(TRUE) /\ id = fund.targets[fund.i])
       /\ FundedEntries(logs') # FundedEntries(logs) => FundConfirmResolved(TRUE)]_vars

\* C19 (as claimed): in a swarm a transaction is counted as successful (the
\* wallet's txCount, successfulTx and totalTx, the success log entry) on its
\* confirmation, so a wallet task never counts more successes than the chain
\* has confirmed of its transactions.
C19_CountedOnConfirmation ==
    \A w \in TaskIds : swarm.tasks[w].ok <= swarm.tasks[w].mined

\* C20 (as claimed): every swarm transaction handed to the chain client
\* carries the configured target, the configured payload ("0x" when none is
\* configured) and the configured gas limit.
C20_RequestsCarryConfiguration ==
    \A w \in TaskIds :
       \A j \in 1..Len(Requests(w)) :
          /\ Requests(w)[j].to = swarm.target
          /\ Requests(w)[j].data = (IF swarm.payload = "" THEN "0x" ELSE swarm.payload)
          /\ Requests(w)[j].gasLimit = {swarm.gasLimit}

\* The part of C20 the code keeps: target and payload.
RequestsCarryTargetAndPayload ==
    \A w \in TaskIds :
       \A j \in 1..Len(Requests(w)) :
          /\ Requests(w)[j].to = swarm.target
          /\ swarm.target = "0xABC"
          /\ Requests(w)[j].data = (IF swarm.payload = "" THEN "0x" ELSE swarm.payload)
          /\ swarm.payload \in {"", "0x", "0xdata"}

\* Task w has written done or error to its wallet in the run in flight.
WroteFinal(w) == swarm.tasks[w].pc = "done" \/ swarm.tasks[w].failed > 0

\* C21 (as claimed): within one swarm run a wallet's status never goes back:
\* once its task has set it to done or error, no step before the run completes
\* sets it to sending.
C21_StatusNeverGoesBack ==
    [][\A w \in TaskIds :
          (/\ swarm.pc = "running"
           /\ WroteFinal(w)
           /\ heap[swarm.ws[w]].status \in {"done", "error"})
          => heap'[swarm.ws[w]].status # "sending"]_vars

\* The part of C21 the code keeps: a wallet whose task has set done stays done
\* until the run completes.
DoneStaysDone ==
    [][\A w \in TaskIds :
          (/\ swarm.pc = "running"
           /\ swarm.tasks[w].pc = "done"
           /\ heap[swarm.ws[w]].status = "done")
          => heap'[swarm.ws[w]].status = "done"]_vars

\* A wallet task still awaits its nonce fetch, a transaction or the delay.
Outstanding(tasks) ==
    \E w \in 1..Len(tasks) : tasks[w].pc \in {"nonce", "tx", "delay"}

CompleteEntries(l) == {n \in 1..Len(l) : l[n].message = "SwarmComplete"}

\* C22: a swarm run completes only after every wallet task has finished: while
\* a task still awaits its nonce fetch, a transaction or its delay, the
\* "SWARM COMPLETE" entry is not logged, the refresh pass after the swarm is
\* not started and isSwarming is not cleared.
C22_CompletesAfterAllTasks ==
    /\ [](Outstanding(swarm.tasks) =>
             (isSwarming /\ swarm.pc = "running"
              /\ logs[Len(logs)].message # "SwarmComplete"))
    /\ [][swarm.pc = "running" =>
             ((\/ CompleteEntries(logs') # CompleteEntries(logs)
               \/ Len(refreshers') > Len(refreshers)
               \/ ~isSwarming')
              => ~Outstanding(swarm'.tasks))]_vars

C22_Witness ==
    /\ lastOp = "swarm:complete"
    /\ ~isSwarming
    /\ swarm.k = 2
    /\ swarm.tasks[1].pc = "done"
    /\ swarm.tasks[2].pc = "abandoned"
    /\ logs[Len(logs) - 1].message = "SwarmComplete"
    /\ logs[Len(logs) - 2].message = "NonceFailed"
    /\ Len(refreshers) > 0

\* Submissions of task w that executeInteraction has not yet answered.
OutstandingTx(w) ==
    Len(swarm.tasks[w].sent) - swarm.tasks[w].ok - swarm.tasks[w].failed

\* Task w can take its next step now: the call or timer it awaits may resolve.
CanStep(w) ==
    \/ ENABLED (\E n0 \in 0..MaxNonce : NonceResolved(w, n0))
    \/ ENABLED TxResolved(w, TRUE)
    \/ ENABLED DelayDone(w)

\* The wallets whose transactions resolved in the run in flight (or the last
\* one), in the order of resolution, as the log records it.
RunStart ==
    CHOOSE n \in 1..Len(logs) :
       /\ logs[n].message = "Initiating"
       /\ \A m \in (n + 1)..Len(logs) : logs[m].message # "Initiating"

TxOrder ==
    LET run == SubSeq(logs, RunStart, Len(logs))
        txs == SelectSeq(run, LAMBDA e : e.message \in {"TxConfirmed", "TxFailed"})
    IN [n \in 1..Len(txs) |-> txs[n].w]

\* C23: within a wallet task the transactions are strictly ordered: at most
\* one submission is outstanding, and the submission with nonce N has
\* succeeded or failed before the one with nonce N + 1 is built; across
\* wallets nothing is ordered: a task that has not finished can take its next
\* step whatever the other tasks are doing.
C23_OrderedWithinWallet ==
    /\ [](\A w \in TaskIds :
             /\ OutstandingTx(w) \in {0, 1}
             /\ OutstandingTx(w) = 1 <=> swarm.tasks[w].pc = "tx")
    /\ [][\A w \in TaskIds :
             Len(swarm'.tasks) = Len(swarm.tasks) /\
             Len(swarm'.tasks[w].sent) > Len(swarm.tasks[w].sent)
             => (OutstandingTx(w) = 0
                 /\ Len(swarm'.tasks[w].sent) = Len(swarm.tasks[w].sent) + 1)]_vars
    /\ [](\A w \in TaskIds :
             (swarm.pc = "running" /\ ~TaskFinished(swarm.tasks[w])) => CanStep(w))

C23_Witness ==
    /\ swarm.pc = "running"
    /\ swarm.k = 2
    /\ TxOrder = <<2, 1, 1, 2>>
    /\ swarm.tasks[1].sent = <<1, 2>>
    /\ swarm.tasks[2].sent = <<0, 1>>
    /\ swarm.tasks[2].pc = "delay"

RECURSIVE SeqSum(_)
SeqSum(s) == IF s = <<>> THEN 0 ELSE Head(s) + SeqSum(Tail(s))

\* Submissions of the run that executeInteraction has answered.
ResolvedInRun ==
    SeqSum([w \in TaskIds |-> swarm.tasks[w].ok + swarm.tasks[w].failed])

\* C24: a swarm run that passes its preconditions sets the three counters to
\* zero before it submits a transaction, so during the run they count the
\* transactions of this run only; and until the run completes no counter
\* decreases.
C24_StatsResetThenGrow ==
    /\ [][\A targetContract \in Targets, interactionsPerWallet \in 0..SwarmK :
             (/\ ~isBusy
              /\ targetContract # "" /\ Len(wallets) > 0
              /\ handleStartSwarm(targetContract, interactionsPerWallet))
             => (/\ stats' = ZeroStats
                 /\ \A w \in 1..Len(swarm'.tasks) : swarm'.tasks[w].sent = <<>>)]_vars
    /\ [](swarm.pc = "running" => stats.totalTx = ResolvedInRun)
    /\ [][isSwarming =>
             /\ stats'.totalTx >= stats.totalTx
             /\ stats'.successfulTx >= stats.successfulTx
             /\ stats'.failedTx >= stats.failedTx]_vars

C24_Witness ==
    /\ ops.swarm = 2
    /\ swarm.pc = "running"
    /\ stats = [totalTx |-> 1, successfulTx |-> 1, failedTx |-> 0]
    /\ heap[swarm.ws[1]].txCount = 2
    /\ \E n \in 1..Len(logs) : logs[n].message = "TxFailed"

\* No step removes, reorders or rewrites an entry of the log.
LogAppendOnly ==
    [][Len(logs') >= Len(logs) /\ SubSeq(logs', 1, Len(logs)) = logs]_vars

\* C25 (as claimed): the log is append-only and the ids of its entries are
\* pairwise distinct: no step removes, reorders or rewrites an entry or its
\* id, and no two entries ever have the same id.
C25_LogAppendOnlyUniqueIds ==
    /\ [][/\ Len(logs') >= Len(logs)
          /\ SubSeq(logs', 1, Len(logs)) = logs
          /\ SubSeq(logIds', 1, Len(logIds)) = logIds]_vars
    /\ [](\A a, b \in 1..Len(logIds) : logIds[a] = logIds[b] => a = b)

\* C26: provided every awaited call returns or throws and every timer fires,
\* a fund or swarm operation that passed its entry check clears its flag in
\* the end, whatever failed on the way (fleet preparation, transfers, nonce
\* fetches, transactions): the application never stays busy forever.
C26_BusyEventuallyClears ==
    /\ isFunding ~> ~isFunding
    /\ isSwarming ~> ~isSwarming
    /\ [](lastOp \in {"fund:noFleet", "fund:badAmount"} => ~isFunding)

C26_Witness ==
    /\ ~isBusy
    /\ lastOp = "swarm:complete"
    /\ swarm.tasks[1].pc = "abandoned"
    /\ heap[swarm.ws[1]].status = "idle"
    /\ \E n \in 1..Len(logs) : logs[n].message = "FundingComplete"
    /\ \E n \in 1..Len(logs) : logs[n].message = "NoValidKeys"

\* C27 (as claimed): once Reset Fleet has emptied the fleet it stays empty
\* until a Fund Fleet command prepares the next one: no refresh pass that was
\* in progress at the reset stores its wallets as the fleet.
C27_FleetStaysEmptyAfterReset ==
    [][(wallets = <<>> /\ wallets' # <<>>) => FundFleetButton]_vars

\* The requests of a run carry this target and payload, and no task makes
\* more than k of them.
RequestsUse(tasks, reqs, target, payload, k) ==
    \A w \in 1..Len(tasks) :
       /\ Len(reqs[w]) <= k
       /\ \A j \in 1..Len(reqs[w]) :
             /\ reqs[w][j].to = target
             /\ reqs[w][j].data = (IF payload = "" THEN "0x" ELSE payload)

AllRequests == [w \in TaskIds |-> Requests(w)]

\* C28 (as claimed): every transaction of a swarm run uses the target, the
\* payload, the count k and the gas limit configured when the run started; a
\* change of the configuration while the run is in flight (the AI panel
\* storing a new payload) alters no request made and none still to be made.
C28_RunUsesStartConfiguration ==
    [][swarm.pc = "running" =>
          /\ RequestsUse(swarm'.tasks, AllRequests', swarm.target, swarm.payload, swarm.k)
          /\ \A w \in TaskIds :
                /\ SubSeq(Requests(w)', 1, Len(Requests(w))) = Requests(w)
                /\ \A j \in 1..Len(Requests(w)') :
                      Requests(w)'[j].gasLimit = {swarm.gasLimit}]_vars

\* The part of C28 the code keeps: target, payload and count are those of the
\* start, whatever the AI panel stores meanwhile.
RunUsesStartTargetPayloadCount ==
    [][swarm.pc = "running" =>
          /\ RequestsUse(swarm'.tasks, AllRequests', swarm.target, swarm.payload, swarm.k)
          /\ \A w \in TaskIds :
                SubSeq(Requests(w)', 1, Len(Requests(w))) = Requests(w)]_vars

\* txCount of all wallets together.
TotalTxCount(h) == SeqSum([id \in Ids |-> h[id].txCount])

\* C29 (as claimed): throughout a swarm run successfulTx is the sum of what
\* the wallets' txCount gained since the run started.  Both are zero gain at
\* the start, so the claim is that every step of the run adds the same to
\* successfulTx and to the txCount of the wallets.
C29_SuccessesMatchTxCounts ==
    [][(swarm.pc = "running" /\ isSwarming) =>
          stats'.successfulTx - stats.successfulTx
             = TotalTxCount(heap') - TotalTxCount(heap)]_vars

\* C30 (as claimed): whenever no swarm run is in flight no wallet is sending:
\* a wallet that became sending during a run is done when isSwarming is
\* cleared.
C30_NoSendingWhenIdle ==
    ~isSwarming => \A w \in 1..Len(wallets) : heap[wallets[w]].status # "sending"

\* The same for every wallet object, in the fleet or discarded.
NoWalletObjectSendingWhenIdle ==
    ~isSwarming => \A id \in Ids : heap[id].status # "sending"

====
